---- MODULE Spec2Model ----
(***************************************************************************)
(* GlyphGuard: homoglyph / mixed-script phishing detection.                *)
(*                                                                         *)
(* Strings are sequences of UTF-16 code units (integers), as JavaScript    *)
(* sees them: "xn--" is <<120, 110, 45, 45>>.                              *)
(***************************************************************************)
EXTENDS Integers, Sequences, FiniteSets, TLC

VARIABLES
  dec,        \* the decoder machine of scanner.js
  variant,    \* the build of the content script that runs in the page
  links,      \* the a[href] elements of the page
  texts,      \* the subject, sender and body elements of the page
  alerted,    \* alertedItems / alertedDomains
  toasts,     \* the keys of the toasts in the document
  fired,      \* the keys of the alerts shown so far, in order
  observing,  \* initialize has run and the MutationObserver is installed
  pending     \* the mutation records waiting for the observer's callback

vars == <<dec, variant, links, texts, alerted, toasts, fired, observing, pending>>

pageVars == <<variant, links, texts, alerted, toasts, fired, observing, pending>>

(***************************************************************************)
(* JavaScript string and number primitives used by the sources.            *)
(***************************************************************************)

\* a faulty prefix test, which finds p anywhere in s: C12 must tell it from
\* StartsWith
FoundIn(s, p) ==
  \E i \in 1..Len(s) : i + Len(p) - 1 <= Len(s) /\ SubSeq(s, i, i + Len(p) - 1) = p

\* String.prototype.startsWith / indexOf(p) === 0
StartsWith(s, p) ==
  /\ Len(s) >= Len(p)
  /\ SubSeq(s, 1, Len(p)) = p

\* String.prototype.includes
Includes(s, p) ==
  \E i \in 0..(Len(s) - Len(p)) : SubSeq(s, i + 1, i + Len(p)) = p

\* String.prototype.lastIndexOf for one character, 0-based, -1 when absent
LastIndexOf(s, c) ==
  LET hits == {j \in 1..Len(s) : s[j] = c}
  IN IF hits = {} THEN -1 ELSE (CHOOSE j \in hits : \A h \in hits : h <= j) - 1

\* String.prototype.slice(from), 0-based
Slice(s, from) == SubSeq(s, from + 1, Len(s))

\* String.prototype.split for a one-character separator
RECURSIVE SplitOn(_, _)
SplitOn(s, c) ==
  LET hits == {j \in 1..Len(s) : s[j] = c}
  IN IF hits = {} THEN <<s>>
     ELSE LET j == CHOOSE h \in hits : \A g \in hits : h <= g
          IN <<SubSeq(s, 1, j - 1)>> \o SplitOn(SubSeq(s, j + 1, Len(s)), c)

\* Array.prototype.join
RECURSIVE JoinWith(_, _)
JoinWith(parts, sep) ==
  IF Len(parts) = 0 THEN <<>>
  ELSE IF Len(parts) = 1 THEN parts[1]
  ELSE parts[1] \o sep \o JoinWith(Tail(parts), sep)

\* Math.floor(a / b) on real division, b # 0
FloorDiv(a, b) == IF b > 0 THEN a \div b ELSE (0 - a) \div (0 - b)

\* a % b in JavaScript: the sign follows the dividend (b > 0)
JsRem(a, b) == IF a >= 0 THEN a % b ELSE 0 - ((0 - a) % b)

\* Array.prototype.splice(start, 0, x): a negative start counts from the end
Splice(arr, start, x) ==
  LET len == Len(arr)
      at == IF start < 0 THEN (IF len + start < 0 THEN 0 ELSE len + start)
            ELSE IF start > len THEN len ELSE start
  IN SubSeq(arr, 1, at) \o <<x>> \o SubSeq(arr, at + 1, len)

\* a faulty conversion, which keeps codes above 16 bits: C16 must tell it
\* from FromCharCode
CodesAsTheyAre(codes) == codes

\* String.fromCharCode(...codes): every code is taken modulo 2^16
FromCharCode(codes) == [j \in 1..Len(codes) |-> codes[j] % 65536]

Dot == <<46>>
AcePrefix == <<120, 110, 45, 45>>

(***************************************************************************)
(* scanner.js: punycodeToUnicode                                           *)
(***************************************************************************)
base == 36
tmin == 1
tmax == 26
skew == 38
damp == 700
initialBias == 72
initialN == 128
delimiter == 45

\* The value JavaScript gives the bias when adapt divides by zero
\* (delta + skew = 0 with a negative numerator): -Infinity.  The bias is only
\* compared with k, which is at least base, so any integer below every k
\* stands for it.
NegInfinity == 0 - 1000000

\* lines 92-95: the digit of a code unit.  The tests are one-sided, as written:
\* cp - 48 < 10 also holds for every cp below "0", cp - 65 < 26 for ":".."@",
\* cp - 97 < 26 for "[".."`".
digitOf(cp) ==
  IF cp - 48 < 10 THEN cp - 22
  ELSE IF cp - 65 < 26 THEN cp - 65
  ELSE IF cp - 97 < 26 THEN cp - 97
  ELSE base

\* lines 112-115: the while loop of adapt
RECURSIVE adaptLoop(_, _)
adaptLoop(delta, k) ==
  IF 2 * delta > (base - tmin) * tmax
  THEN adaptLoop(FloorDiv(delta, base - tmin), k + base)
  ELSE [delta |-> delta, k |-> k]

\* lines 108-117.  delta >> 1 is the floor of delta / 2 for the 32-bit values
\* the bounded labels produce.
adapt(delta, numPoints, firstTime) ==
  LET d1 == IF firstTime THEN FloorDiv(delta, damp) ELSE FloorDiv(delta, 2)
      d2 == d1 + FloorDiv(d1, numPoints)
      r == adaptLoop(d2, 0)
  IN IF r.delta + skew = 0 THEN NegInfinity
     ELSE r.k + FloorDiv((base - tmin + 1) * r.delta, r.delta + skew)

\* lines 87-100: the inner for loop, which reads the digits of one delta.
\* ended: the input ran out inside the loop (line 88).
RECURSIVE readDelta(_, _, _, _, _)
readDelta(input, i, w, k, bias) ==
  IF Len(input) = 0 THEN [ended |-> TRUE, input |-> input, i |-> i]
  ELSE LET cp == Head(input)
           digit == digitOf(cp)
           i2 == i + digit * w
           t == IF k <= bias THEN tmin
                ELSE IF k >= bias + tmax THEN tmax ELSE k - bias
       IN IF digit < t THEN [ended |-> FALSE, input |-> Tail(input), i |-> i2]
          ELSE readDelta(Tail(input), i2, w * (base - t), k + base, bias)

\* lines 78-84: the state of decode before its while loop
decodeInit(input) ==
  LET b == LastIndexOf(input, delimiter)
  IN [input |-> IF b > -1 THEN Slice(input, b + 1) ELSE input,
      basic |-> IF b > -1 THEN SubSeq(input, 1, b) ELSE <<>>,
      n |-> initialN, i |-> 0, bias |-> initialBias,
      returned |-> FALSE, iterations |-> 0]

\* lines 85-107: one iteration of the while loop
decodeIteration(st) ==
  LET r == readDelta(st.input, st.i, 1, base, st.bias)
      outLen == Len(st.basic) + 1
      n2 == st.n + FloorDiv(r.i, outLen)
      i2 == JsRem(r.i, outLen)
  IN IF r.ended
     THEN [st EXCEPT !.input = r.input, !.returned = TRUE,
                     !.iterations = st.iterations + 1]
     ELSE [input |-> r.input,
           basic |-> Splice(st.basic, i2, n2),
           n |-> n2, i |-> i2 + 1,
           bias |-> adapt(r.i - st.i, outLen, st.i = 0),
           returned |-> FALSE, iterations |-> st.iterations + 1]

\* the while loop run to its end
RECURSIVE decodeLoop(_)
decodeLoop(st) ==
  IF st.returned \/ Len(st.input) = 0 THEN st ELSE decodeLoop(decodeIteration(st))

\* lines 75-126.  Nothing inside decode throws, so the catch of line 123 is
\* never taken.
punycodeToUnicode(input) ==
  IF Len(input) = 0 \/ ~StartsWith(input, AcePrefix) THEN input
  ELSE FromCharCode(decodeLoop(decodeInit(Slice(input, 4))).basic)

\* lines 128-140, from the hostname the URL parser gives (line 131)
getHostnameUnicode(host) ==
  IF StartsWith(host, AcePrefix)
  THEN LET parts == SplitOn(host, 46)
       IN JoinWith([j \in 1..Len(parts) |->
                      IF StartsWith(parts[j], AcePrefix)
                      THEN punycodeToUnicode(parts[j]) ELSE parts[j]], Dot)
  ELSE host

(***************************************************************************)
(* GlyphGuard (unnamed/part_001, lines 1-474): the text checks.            *)
(***************************************************************************)

\* the characters the regular expression class \s matches
IsSpace(c) ==
  \/ c \in {9, 10, 11, 12, 13, 32, 160, 5760, 8232, 8233, 8239, 8287, 12288, 65279}
  \/ (c >= 8192 /\ c <= 8202)

\* String.prototype.toLowerCase on the scripts the model's texts use: ASCII,
\* Latin-1 and the Cyrillic block; every other code unit is left as it is.
lowerOf(c) ==
  IF c >= 65 /\ c <= 90 THEN c + 32
  ELSE IF c >= 192 /\ c <= 222 /\ c # 215 THEN c + 32
  ELSE IF c >= 1040 /\ c <= 1071 THEN c + 32
  ELSE IF c >= 1024 /\ c <= 1039 THEN c + 80
  ELSE c

toLowerCase(s) == [j \in 1..Len(s) |-> lowerOf(s[j])]

\* String.prototype.trim
RECURSIVE trimStart(_)
trimStart(s) == IF Len(s) > 0 /\ IsSpace(Head(s)) THEN trimStart(Tail(s)) ELSE s

RECURSIVE trimEnd(_)
trimEnd(s) ==
  IF Len(s) > 0 /\ IsSpace(s[Len(s)]) THEN trimEnd(SubSeq(s, 1, Len(s) - 1)) ELSE s

trim(s) == trimEnd(trimStart(s))

\* text.split(/\s+/): cut at every maximal run of white space; a leading or
\* trailing run leaves an empty string at that end
RECURSIVE splitSpaces(_)
splitSpaces(s) ==
  LET hits == {j \in 1..Len(s) : IsSpace(s[j])}
  IN IF hits = {} THEN <<s>>
     ELSE LET j == CHOOSE h \in hits : \A g \in hits : h <= g
          IN <<SubSeq(s, 1, j - 1)>> \o splitSpaces(trimStart(SubSeq(s, j, Len(s))))

\* lines 28-34
SUSPICIOUS_KEYWORDS ==
  <<
     <<99, 111, 110, 102, 105, 100, 101, 110, 116, 105, 97, 108>>,  \* confidential
     <<117, 114, 103, 101, 110, 116>>,  \* urgent
     <<118, 101, 114, 105, 102, 121>>,  \* verify
     <<97, 99, 99, 111, 117, 110, 116>>,  \* account
     <<115, 101, 99, 117, 114, 105, 116, 121>>,  \* security
     <<97, 108, 101, 114, 116>>,  \* alert
     <<115, 116, 97, 116, 101, 109, 101, 110, 116>>,  \* statement
     <<105, 110, 118, 111, 105, 99, 101>>,  \* invoice
     <<112, 97, 121, 109, 101, 110, 116>>,  \* payment
     <<115, 117, 115, 112, 101, 110, 100, 101, 100>>,  \* suspended
     <<108, 111, 99, 107, 101, 100>>,  \* locked
     <<101, 120, 112, 105, 114, 101>>,  \* expire
     <<100, 111, 99, 117, 109, 101, 110, 116>>,  \* document
     <<116, 105, 99, 107, 101, 116>>,  \* ticket
     <<110, 111, 116, 105, 102, 105, 99, 97, 116, 105, 111, 110>>,  \* notification
     <<97, 99, 116, 105, 111, 110, 32, 114, 101, 113, 117, 105, 114, 101, 100>>,  \* action required
     <<99, 111, 110, 102, 105, 114, 109>>,  \* confirm
     <<117, 112, 100, 97, 116, 101>>,  \* update
     <<98, 105, 108, 108, 105, 110, 103>>,  \* billing
     <<112, 97, 115, 115, 119, 111, 114, 100>>,  \* password
     <<108, 111, 103, 105, 110>>,  \* login
     <<115, 105, 103, 110, 105, 110>>,  \* signin
     <<118, 101, 114, 105, 102, 121>>,  \* verify
     <<117, 110, 117, 115, 117, 97, 108>>,  \* unusual
     <<97, 99, 116, 105, 118, 105, 116, 121>>,  \* activity
     <<114, 101, 118, 105, 101, 119>>,  \* review
     <<105, 109, 112, 111, 114, 116, 97, 110, 116>>,  \* important
     <<105, 109, 109, 101, 100, 105, 97, 116, 101>> >>  \* immediate

\* lines 37-42
BRAND_NAMES ==
  <<
     <<112, 97, 121, 112, 97, 108>>,  \* paypal
     <<97, 112, 112, 108, 101>>,  \* apple
     <<103, 111, 111, 103, 108, 101>>,  \* google
     <<109, 105, 99, 114, 111, 115, 111, 102, 116>>,  \* microsoft
     <<97, 109, 97, 122, 111, 110>>,  \* amazon
     <<102, 97, 99, 101, 98, 111, 111, 107>>,  \* facebook
     <<100, 111, 99, 117, 115, 105, 103, 110>>,  \* docusign
     <<97, 100, 111, 98, 101>>,  \* adobe
     <<100, 114, 111, 112, 98, 111, 120>>,  \* dropbox
     <<119, 101, 116, 114, 97, 110, 115, 102, 101, 114>>,  \* wetransfer
     <<104, 101, 108, 108, 111, 115, 105, 103, 110>>,  \* hellosign
     <<105, 110, 115, 116, 97, 103, 114, 97, 109>>,  \* instagram
     <<116, 119, 105, 116, 116, 101, 114>>,  \* twitter
     <<108, 105, 110, 107, 101, 100, 105, 110>>,  \* linkedin
     <<110, 101, 116, 102, 108, 105, 120>>,  \* netflix
     <<115, 112, 111, 116, 105, 102, 121>>,  \* spotify
     <<99, 104, 97, 115, 101>>,  \* chase
     <<119, 101, 108, 108, 115, 102, 97, 114, 103, 111>>,  \* wellsfargo
     <<98, 97, 110, 107, 111, 102, 97, 109, 101, 114, 105, 99, 97>>,  \* bankofamerica
     <<99, 105, 116, 105, 98, 97, 110, 107>>,  \* citibank
     <<117, 115, 98, 97, 110, 107>> >>  \* usbank

\* Array.prototype.some over a list of strings
SomeIncluded(list, s) == \E j \in 1..Len(list) : Includes(s, list[j])

\* lines 213-217
containsSuspiciousKeywords(text) ==
  LET lowerText == toLowerCase(text)
  IN SomeIncluded(SUSPICIOUS_KEYWORDS, lowerText) \/ SomeIncluded(BRAND_NAMES, lowerText)

\* line 236: the class [^a-zA-Z0-9.\-\s,;:!?'"()[\]{}] matches c
outsideWordClass(c) ==
  ~ \/ (c >= 97 /\ c <= 122)
    \/ (c >= 65 /\ c <= 90)
    \/ (c >= 48 /\ c <= 57)
    \/ IsSpace(c)
    \/ c \in {46, 45, 44, 59, 58, 33, 63, 39, 34, 40, 41, 91, 93, 123, 125}

\* a faulty test, which looks for code units above ASCII only: C7 must tell
\* it from hasNonLatin
hasNonAscii(word) == \E j \in 1..Len(word) : word[j] > 127

\* line 236: the regular expression's test on a word
hasNonLatin(word) == \E j \in 1..Len(word) : outsideWordClass(word[j])

\* lines 229-238: the forEach callback's decision on one word
isSuspiciousWord(word) ==
  LET lowerWord == toLowerCase(word)
      matchesKeyword == SomeIncluded(SUSPICIOUS_KEYWORDS, lowerWord)
                          \/ SomeIncluded(BRAND_NAMES, lowerWord)
  IN matchesKeyword /\ hasNonLatin(word)

\* lines 224-242
findSuspiciousWords(text) == SelectSeq(splitSpaces(text), isSuspiciousWord)

(***************************************************************************)
(* punycode.toUnicode: the punycode.js library the content scripts call.   *)
(* It is not among the sources; it is modelled from the specification's    *)
(* decodeHostname / decodeLabel (sections 4.2 and 6).                       *)
(***************************************************************************)
Malformed == <<0 - 1>>

\* section 4.2: 0-9 are 26..35, A-Z and a-z are 0..25; 36 for anything else
specDigit(cp) ==
  IF cp >= 48 /\ cp <= 57 THEN cp - 22
  ELSE IF cp >= 65 /\ cp <= 90 THEN cp - 65
  ELSE IF cp >= 97 /\ cp <= 122 THEN cp - 97
  ELSE 36

RECURSIVE specAdaptLoop(_, _)
specAdaptLoop(delta, k) ==
  IF delta > (35 * 26) \div 2 THEN specAdaptLoop(delta \div 35, k + 36)
  ELSE k + ((36 * delta) \div (delta + 38))

\* section 4.2: the adapt function
specAdapt(delta, numPoints, firstTime) ==
  LET d == IF firstTime THEN delta \div 700 ELSE delta \div 2
  IN specAdaptLoop(d + (d \div numPoints), 0)

\* the digits of one delta; ok is FALSE when the digits run out or a
\* character is no digit
RECURSIVE specReadDelta(_, _, _, _, _)
specReadDelta(input, i, w, k, bias) ==
  IF Len(input) = 0 THEN [ok |-> FALSE, input |-> input, i |-> i]
  ELSE LET digit == specDigit(Head(input))
           t == IF k <= bias THEN 1 ELSE IF k >= bias + 26 THEN 26 ELSE k - bias
       IN IF digit >= 36 THEN [ok |-> FALSE, input |-> input, i |-> i]
          ELSE IF digit < t THEN [ok |-> TRUE, input |-> Tail(input), i |-> i + digit * w]
          ELSE specReadDelta(Tail(input), i + digit * w, w * (36 - t), k + 36, bias)

RECURSIVE specDecodeLoop(_, _, _, _, _)
specDecodeLoop(input, out, n, i, bias) ==
  IF Len(input) = 0 THEN out
  ELSE LET r == specReadDelta(input, i, 1, 36, bias)
           outLen == Len(out) + 1
           n2 == n + (r.i \div outLen)
           i2 == r.i % outLen
       IN IF ~r.ok \/ n2 > 1114111 THEN Malformed
          ELSE specDecodeLoop(r.input, SubSeq(out, 1, i2) \o <<n2>> \o SubSeq(out, i2 + 1, Len(out)),
                              n2, i2 + 1, specAdapt(r.i - i, outLen, i = 0))

\* section 4.2: decodeLabel; a malformed label comes back as it was
decodeLabel(label) ==
  IF ~StartsWith(label, AcePrefix) THEN label
  ELSE LET ascii == Slice(label, 4)
           b == LastIndexOf(ascii, 45)
           basic == IF b > -1 THEN SubSeq(ascii, 1, b) ELSE <<>>
           digits == IF b > -1 THEN Slice(ascii, b + 1) ELSE ascii
           r == specDecodeLoop(digits, basic, 128, 0, 72)
       IN IF r = Malformed \/ (\E j \in 1..Len(basic) : basic[j] >= 128) THEN label ELSE r

\* section 4.2: decodeHostname splits on ".", decodes each label, joins with "."
toUnicode(hostname) ==
  LET parts == SplitOn(hostname, 46)
  IN JoinWith([j \in 1..Len(parts) |-> decodeLabel(parts[j])], Dot)

(***************************************************************************)
(* The page and the content scripts' handlers.  A world w is the part of   *)
(* the state a scan reads and writes: links, texts, alerted, toasts, fired, *)
(* and mutated (the scan inserted a node under document.body).             *)
(***************************************************************************)

\* the three builds that scan link domains
Variants == {"GlyphGuard", "Shield", "Content"}

\* the hostname of a link whose href the URL constructor rejects
InvalidUrl == <<0 - 2>>

NoTitle == [displayed |-> <<>>, actual |-> <<>>]

LOCALHOST == <<108, 111, 99, 97, 108, 104, 111, 115, 116>>
PREFIX_127 == <<49, 50, 55, 46>>
PREFIX_192_168 == <<49, 57, 50, 46, 49, 54, 56, 46>>
PREFIX_10 == <<49, 48, 46>>

\* part_001 391-394 (GlyphGuard), part_001 645-647 (Homoglyph Shield);
\* content.js has no such test
skipsDomain(v, domain) ==
  IF v = "GlyphGuard"
  THEN \/ Len(domain) = 0
       \/ domain = LOCALHOST
       \/ StartsWith(domain, PREFIX_127)
       \/ StartsWith(domain, PREFIX_192_168)
       \/ StartsWith(domain, PREFIX_10)
  ELSE IF v = "Shield"
  THEN \/ Len(domain) = 0
       \/ domain = LOCALHOST
       \/ StartsWith(domain, PREFIX_127)
       \/ StartsWith(domain, PREFIX_192_168)
  ELSE FALSE

\* a faulty test, which looks for code units above ASCII only: C2 must tell
\* it from hasNonLatinDomainChar
hasNonAsciiDomainChar(decodedDomain) ==
  \E j \in 1..Len(decodedDomain) : decodedDomain[j] > 127

\* part_001 400, 655, content.js 143: /[^a-zA-Z0-9.\-]/.test(decodedDomain)
hasNonLatinDomainChar(decodedDomain) ==
  \E j \in 1..Len(decodedDomain) :
    LET c == decodedDomain[j]
    IN ~ \/ (c >= 97 /\ c <= 122)
         \/ (c >= 65 /\ c <= 90)
         \/ (c >= 48 /\ c <= 57)
         \/ c = 46
         \/ c = 45

\* part_001 171-206 (also 589-624, content.js 90-122): a toast for itemId is
\* created unless one is in the document
showToast(w, itemId) ==
  IF itemId \in w.toasts THEN w
  ELSE [w EXCEPT !.toasts = w.toasts \cup {itemId},
                 !.fired = Append(w.fired, itemId),
                 !.mutated = TRUE]

\* a faulty membership test, which takes every key for new: C11 must tell it
\* from shouldAlert
alwaysNew(alertedSet, key) == TRUE

\* part_001 415 / 283 (also 670, content.js 151): the membership test
shouldAlert(alertedSet, key) == key \notin alertedSet

\* a faulty insertion, which keeps the latest key only: C10 must tell it from
\* recordAlerted
recordLatest(alertedSet, key) == {key}

\* part_001 416 / 284 (also 671, content.js 152): the insertion
recordAlerted(alertedSet, key) == alertedSet \cup {key}

\* part_001 414-422 / 282-290: alert once per key
alertOnce(w, key) ==
  IF shouldAlert(w.alerted, key)
  THEN showToast([w EXCEPT !.alerted = recordAlerted(w.alerted, key)], key)
  ELSE w

\* part_001 379-427 (also 633-682, content.js 128-159): the forEach callback
\* of scanLinks on one link
scanLink(v, w, id) ==
  LET link == w.links[id]
      marked == [w EXCEPT !.links[id].scanned = TRUE]
  IN IF ~link.present \/ link.scanned THEN w
     ELSE IF link.host = InvalidUrl THEN marked
     ELSE IF skipsDomain(v, link.host) THEN marked
     ELSE LET decodedDomain == toUnicode(link.host)
          IN IF hasNonLatinDomainChar(decodedDomain)
             THEN alertOnce([marked EXCEPT
                               !.links[id].flagged = TRUE,
                               !.links[id].title =
                                  [displayed |-> IF v = "Content" THEN <<>> ELSE link.host,
                                   actual |-> decodedDomain]],
                            decodedDomain)
             ELSE marked

\* links.forEach in document order
RECURSIVE scanLinksFrom(_, _, _)
scanLinksFrom(v, w, id) ==
  IF id \notin DOMAIN w.links THEN w
  ELSE scanLinksFrom(v, scanLink(v, w, id), id + 1)

\* part_001 376-428
scanLinks(v, w) == scanLinksFrom(v, w, 1)

EMAIL_SUBJECT == <<69, 77, 65, 73, 76, 32, 83, 85, 66, 74, 69, 67, 84>>
SENDER_NAME == <<83, 69, 78, 68, 69, 82, 32, 78, 65, 77, 69>>
EMAIL_BODY == <<69, 77, 65, 73, 76, 32, 66, 79, 68, 89>>
TEXT_DASH == <<116, 101, 120, 116, 45>>
DASH == <<45>>

\* part_001 280: `text-${location}-${suspiciousWords.join('-')}`
alertIdOf(location, suspiciousWords) ==
  TEXT_DASH \o location \o DASH \o JoinWith(suspiciousWords, DASH)

\* a faulty check, which does not look at the scanned attribute: C18 must
\* tell it from checkTextForHomoglyphs
checkTextEveryTime(w, id, location) ==
  LET element == w.texts[id]
      text == trim(element.text)
      marked == [w EXCEPT !.texts[id].scanned = TRUE]
      suspiciousWords == findSuspiciousWords(text)
  IN IF ~element.present \/ Len(element.text) = 0 THEN w
     ELSE IF Len(text) = 0 THEN w
     ELSE IF ~containsSuspiciousKeywords(text) THEN marked
     ELSE IF Len(suspiciousWords) > 0
          THEN alertOnce([marked EXCEPT
                            !.texts[id].flagged = TRUE,
                            !.texts[id].banners = element.banners + 1,
                            !.texts[id].words = suspiciousWords,
                            !.texts[id].location = location,
                            !.mutated = TRUE],
                         alertIdOf(location, suspiciousWords))
          ELSE marked

\* part_001 249-292
checkTextForHomoglyphs(w, id, location) ==
  LET element == w.texts[id]
      text == trim(element.text)
      marked == [w EXCEPT !.texts[id].scanned = TRUE]
      suspiciousWords == findSuspiciousWords(text)
  IN IF ~element.present \/ Len(element.text) = 0 THEN w
     ELSE IF Len(text) = 0 THEN w
     ELSE IF element.scanned THEN w
     ELSE IF ~containsSuspiciousKeywords(text) THEN marked
     ELSE IF Len(suspiciousWords) > 0
          THEN alertOnce([marked EXCEPT
                            !.texts[id].flagged = TRUE,
                            !.texts[id].banners = element.banners + 1,
                            !.texts[id].words = suspiciousWords,
                            !.texts[id].location = location,
                            !.mutated = TRUE],
                         alertIdOf(location, suspiciousWords))
          ELSE marked

\* part_001 358-368: the callback of scanEmailBody on one body element; the
\* element's text is the text of its first paragraph
scanBody(w, id) ==
  IF w.texts[id].bodyScanned THEN w
  ELSE checkTextForHomoglyphs([w EXCEPT !.texts[id].bodyScanned = TRUE], id, EMAIL_BODY)

\* the elements of one kind, in document order
RECURSIVE scanTextsFrom(_, _, _)
scanTextsFrom(w, kind, id) ==
  IF id \notin DOMAIN w.texts THEN w
  ELSE IF ~w.texts[id].present \/ w.texts[id].kind # kind THEN scanTextsFrom(w, kind, id + 1)
  ELSE IF kind = "subject"
       THEN scanTextsFrom(checkTextForHomoglyphs(w, id, EMAIL_SUBJECT), kind, id + 1)
  ELSE IF kind = "sender"
       THEN scanTextsFrom(checkTextForHomoglyphs(w, id, SENDER_NAME), kind, id + 1)
  ELSE scanTextsFrom(scanBody(w, id), kind, id + 1)

\* part_001 297-316
scanEmailSubjects(w) == scanTextsFrom(w, "subject", 1)

\* part_001 321-339
scanSenderNames(w) == scanTextsFrom(w, "sender", 1)

\* part_001 344-371
scanEmailBody(w) == scanTextsFrom(w, "body", 1)

\* part_001 433-438 (GlyphGuard); the other two builds scan links only
\* (part_001 698, 703; content.js 170, 174)
runAllScans(v, w) ==
  IF v = "GlyphGuard"
  THEN scanEmailBody(scanSenderNames(scanEmailSubjects(scanLinks(v, w))))
  ELSE scanLinks(v, w)

(***************************************************************************)
(* scanner.js: the mixed-script link check.                                *)
(***************************************************************************)
ScriptNames == {"Latin", "Greek", "Cyrillic", "Armenian", "Hebrew", "Arabic"}

\* a faulty table, whose ranges leave their first code unit out: C15 must
\* tell it from scriptMatches
scriptMatchesAfterFirst(name, c) ==
  CASE name = "Latin" -> (c > 65 /\ c <= 122) \/ (c > 192 /\ c <= 255)
    [] name = "Greek" -> c > 880 /\ c <= 1023
    [] name = "Cyrillic" -> c > 1024 /\ c <= 1279
    [] name = "Armenian" -> c > 1328 /\ c <= 1423
    [] name = "Hebrew" -> c > 1424 /\ c <= 1535
    [] name = "Arabic" -> c > 1536 /\ c <= 1791

\* lines 3-10: the regular expression of a script matches the code unit c
scriptMatches(name, c) ==
  CASE name = "Latin" -> (c >= 65 /\ c <= 122) \/ (c >= 192 /\ c <= 255)
    [] name = "Greek" -> c >= 880 /\ c <= 1023
    [] name = "Cyrillic" -> c >= 1024 /\ c <= 1279
    [] name = "Armenian" -> c >= 1328 /\ c <= 1423
    [] name = "Hebrew" -> c >= 1424 /\ c <= 1535
    [] name = "Arabic" -> c >= 1536 /\ c <= 1791

\* lines 12-19
detectScripts(str) ==
  IF Len(str) = 0 THEN {}
  ELSE {name \in ScriptNames : \E j \in 1..Len(str) : scriptMatches(name, str[j])}

MIXED_MESSAGE == <<77, 105, 120, 101, 100, 45, 115, 99, 114, 105, 112, 116, 32, 108, 105, 110, 107, 32, 100, 101, 116, 101, 99, 116, 101, 100, 58, 32>>

\* lines 204-221: the later of the two declarations of showToast in
\* scanner.js is the one in force; it appends a toast to document.body. A
\* link is marked once (seenLinks), so the link names its toast.
showMixedToast(w, id, message) ==
  [w EXCEPT !.toasts = w.toasts \cup {[link |-> id, message |-> message]},
            !.mutated = TRUE]

\* faulty checks, which leave the link's text out: C8 must tell them from
\* linkChecks
linkChecksWithoutText(link) ==
  LET raw == link.raw
      resolvedHref == link.href
      hostname == getHostnameUnicode(link.host)
  IN (IF Len(raw) > 0 THEN <<raw>> ELSE <<>>)
       \o (IF Len(resolvedHref) > 0
           THEN (IF Len(hostname) > 0 THEN <<hostname>> ELSE <<>>) \o <<resolvedHref>>
           ELSE <<>>)

\* lines 148-159: the strings inspectLink checks
linkChecks(link) ==
  LET raw == link.raw
      text == link.text \o <<32>> \o link.text
      resolvedHref == link.href
      hostname == getHostnameUnicode(link.host)
  IN (IF Len(raw) > 0 THEN <<raw>> ELSE <<>>)
       \o <<text>>
       \o (IF Len(resolvedHref) > 0
           THEN (IF Len(hostname) > 0 THEN <<hostname>> ELSE <<>>) \o <<resolvedHref>>
           ELSE <<>>)

\* lines 144-168
inspectLink(w, id) ==
  LET link == w.links[id]
      combined == JoinWith(linkChecks(link), <<32>>)
      found == detectScripts(combined)
      shown == IF Len(link.href) > 0 THEN link.href
               ELSE IF Len(link.raw) > 0 THEN link.raw
               ELSE link.text \o <<32>> \o link.text
  IN IF ~link.present \/ link.scanned THEN w
     ELSE IF Cardinality(found) > 1
          THEN showMixedToast([w EXCEPT !.links[id].flagged = TRUE,
                                        !.links[id].scanned = TRUE],
                              id, MIXED_MESSAGE \o shown)
          ELSE w

\* lines 170-172: querySelectorAll("a").forEach(inspectLink)
RECURSIVE scanAllFrom(_, _)
scanAllFrom(w, id) ==
  IF id \notin DOMAIN w.links THEN w ELSE scanAllFrom(inspectLink(w, id), id + 1)

scanAll(w) == scanAllFrom(w, 1)

\* lines 174-186: the observer's callback over its mutation records
RECURSIVE inspectRecords(_, _)
inspectRecords(w, records) ==
  IF Len(records) = 0 THEN w
  ELSE IF Head(records).link = 0 THEN inspectRecords(w, Tail(records))
  ELSE inspectRecords(inspectLink(w, Head(records).link), Tail(records))

(***************************************************************************)
(* The inputs of the decoder.                                              *)
(***************************************************************************)
MaxLabelLen == 3

\* a, -, e-acute, Cyrillic a, Cyrillic er
LabelAlphabet == {97, 45, 233, 1072, 1088}

\* every non-empty string over the alphabet of at most n code units
RECURSIVE StringsUpTo(_, _)
StringsUpTo(alphabet, n) ==
  IF n = 0 THEN {<<>>}
  ELSE LET shorter == StringsUpTo(alphabet, n - 1)
       IN shorter \cup {<<c>> \o s : c \in alphabet, s \in {t \in shorter : Len(t) = n - 1}}

\* "apple" with a Cyrillic first letter, and the all-Cyrillic lookalike of "apple"
ExampleApple == <<1072, 112, 112, 108, 101>>
ExampleCyrillicApple == <<1072, 1088, 1088, 1231, 1077>>
\* the Cyrillic top-level domain U+0440 U+0444
ExampleRf == <<1088, 1092>>

\* the code point U+1002E, outside the Basic Multilingual Plane
ExampleAstral == <<65582>>

\* the labels as sequences of code points
UnicodeLabels ==
  (StringsUpTo(LabelAlphabet, MaxLabelLen) \ {<<>>})
    \cup {ExampleApple, ExampleCyrillicApple, ExampleRf, ExampleAstral}

\* the string of a sequence of code points: a code point above U+FFFF is a
\* surrogate pair
RECURSIVE RefUtf16(_)
RefUtf16(u) ==
  IF Len(u) = 0 THEN <<>>
  ELSE (IF Head(u) > 65535
        THEN <<55296 + ((Head(u) - 65536) \div 1024), 56320 + ((Head(u) - 65536) % 1024)>>
        ELSE <<Head(u)>>) \o RefUtf16(Tail(u))

(***************************************************************************)
(* The reference the decoder is measured against: the encoding procedure   *)
(* of RFC 3492, section 6.3, written with the RFC's parameter values.      *)
(***************************************************************************)
RfcDigit(d) == IF d < 26 THEN 97 + d ELSE 22 + d

RfcThreshold(k, bias) ==
  IF k <= bias THEN 1 ELSE IF k >= bias + 26 THEN 26 ELSE k - bias

RECURSIVE RfcAdaptLoop(_, _)
RfcAdaptLoop(delta, k) ==
  IF delta > 455 THEN RfcAdaptLoop(delta \div 35, k + 36)
  ELSE k + ((36 * delta) \div (delta + 38))

RfcAdapt(delta, numpoints, firsttime) ==
  LET d == IF firsttime THEN delta \div 700 ELSE delta \div 2
  IN RfcAdaptLoop(d + (d \div numpoints), 0)

\* a delta as a generalized variable-length integer
RECURSIVE RfcVarInt(_, _, _)
RfcVarInt(q, k, bias) ==
  LET t == RfcThreshold(k, bias)
  IN IF q < t THEN <<RfcDigit(q)>>
     ELSE <<RfcDigit(t + ((q - t) % (36 - t)))>>
            \o RfcVarInt((q - t) \div (36 - t), k + 36, bias)

\* one pass over the input for the current n
RECURSIVE RfcPass(_, _, _, _)
RfcPass(u, j, b, st) ==
  IF j > Len(u) THEN st
  ELSE IF u[j] < st.n THEN RfcPass(u, j + 1, b, [st EXCEPT !.delta = st.delta + 1])
  ELSE IF u[j] = st.n
       THEN RfcPass(u, j + 1, b,
                    [st EXCEPT !.chunks = Append(st.chunks, RfcVarInt(st.delta, 36, st.bias)),
                               !.bias = RfcAdapt(st.delta, st.h + 1, st.h = b),
                               !.delta = 0,
                               !.h = st.h + 1])
  ELSE RfcPass(u, j + 1, b, st)

RECURSIVE RfcRounds(_, _, _)
RfcRounds(u, b, st) ==
  IF st.h >= Len(u) THEN st
  ELSE LET m == CHOOSE c \in {u[j] : j \in 1..Len(u)} :
                  /\ c >= st.n
                  /\ \A j \in 1..Len(u) : u[j] >= st.n => c <= u[j]
           st1 == [st EXCEPT !.delta = st.delta + (m - st.n) * (st.h + 1), !.n = m]
           st2 == RfcPass(u, 1, b, st1)
       IN RfcRounds(u, b, [st2 EXCEPT !.delta = st2.delta + 1, !.n = st2.n + 1])

\* the basic code points of u, and the digits of each delta, in order
RfcEncode(u) ==
  LET basic == SelectSeq(u, LAMBDA c : c < 128)
      b == Len(basic)
      st == RfcRounds(u, b, [n |-> 128, delta |-> 0, bias |-> 72, h |-> b, chunks |-> <<>>])
  IN [basic |-> basic, chunks |-> st.chunks]

RECURSIVE Flatten(_)
Flatten(seqs) == IF Len(seqs) = 0 THEN <<>> ELSE Head(seqs) \o Flatten(Tail(seqs))

\* the "xn--" label of an encoding
AceLabel(e) ==
  AcePrefix \o e.basic \o (IF Len(e.basic) > 0 THEN <<45>> ELSE <<>>) \o Flatten(e.chunks)

\* every well-formed label of the bounded universe, with the string it encodes
WellFormed == {[label |-> AceLabel(RfcEncode(u)), unicode |-> RefUtf16(u)] : u \in UnicodeLabels}

WellFormedLabels == {w.label : w \in WellFormed}

\* well-formed labels whose last delta has lost its last digit while at least
\* one of its digits remains: the digit sequence ends before the delta is complete
CutLast(chunks) ==
  [chunks EXCEPT ![Len(chunks)] = SubSeq(chunks[Len(chunks)], 1, Len(chunks[Len(chunks)]) - 1)]

TruncatedLabels ==
  LET encs == {RfcEncode(u) : u \in UnicodeLabels}
      cuttable == {e \in encs : Len(e.chunks) > 0 /\ Len(e.chunks[Len(e.chunks)]) > 1}
  IN {AceLabel([e EXCEPT !.chunks = CutLast(e.chunks)]) : e \in cuttable}

\* "_", "!" and e-acute: none is a base-36 digit
BadDigits == {95, 33, 233}

\* well-formed labels with one digit of the encoded part replaced by a
\* character that is no base-36 digit
BadDigitLabels ==
  LET encs == {RfcEncode(u) : u \in UnicodeLabels}
      digits(e) == Flatten(e.chunks)
      head(e) == AcePrefix \o e.basic \o (IF Len(e.basic) > 0 THEN <<45>> ELSE <<>>)
  IN UNION {{head(e) \o [digits(e) EXCEPT ![j] = c] : j \in 1..Len(digits(e)), c \in BadDigits}
            : e \in encs}

\* labels without the prefix: "", "com", "www", "axn--a", "xn-", "10", "XN--a"
PlainLabels == {<<>>, <<99, 111, 109>>, <<119, 119, 119>>, <<97, 120, 110, 45, 45, 97>>,
                <<120, 110, 45>>, <<49, 48>>, <<88, 78, 45, 45, 97>>}

Labels == WellFormedLabels \cup TruncatedLabels \cup BadDigitLabels \cup PlainLabels

\* labels the hostnames are made of: "xn--pple-43d", "xn--80ak6aa92e",
\* "xn--p1ai", the truncated "xn--pple-43", "www", "com", "xn--xn--a-" (the
\* encoding of the ASCII string "xn--a") and "xn--ep7c" (the encoding of
\* U+1002E)
LabelApple == AceLabel(RfcEncode(ExampleApple))
LabelCyrillicApple == AceLabel(RfcEncode(ExampleCyrillicApple))
LabelRf == AceLabel(RfcEncode(ExampleRf))
LabelTruncated == SubSeq(LabelApple, 1, Len(LabelApple) - 1)
LabelWww == <<119, 119, 119>>
LabelCom == <<99, 111, 109>>
LabelXnA == AceLabel(RfcEncode(<<120, 110, 45, 45, 97>>))
LabelAstral == AceLabel(RfcEncode(ExampleAstral))

HostLabels ==
  {LabelApple, LabelCyrillicApple, LabelRf, LabelTruncated, LabelWww, LabelCom, LabelXnA,
   LabelAstral}

MaxHostLabels == 3

\* every hostname of 1..MaxHostLabels labels
RECURSIVE HostsOf(_, _)
HostsOf(labels, n) ==
  IF n = 1 THEN labels
  ELSE LET shorter == HostsOf(labels, n - 1)
       IN shorter \cup {l \o Dot \o h : l \in labels, h \in shorter}

DecodeHosts == HostsOf(HostLabels, MaxHostLabels)

(***************************************************************************)
(* The page.                                                               *)
(***************************************************************************)
MaxLinks == 2
MaxTexts == 1

LinkIds == 1..MaxLinks
TextIds == 1..MaxTexts

\* host: the hostname of new URL(link.href); raw: the href attribute; href:
\* link.href; text: the link's text; scanned: the scanned attribute, or the
\* membership in seenLinks
NoLink ==
  [present |-> FALSE, host |-> <<>>, raw |-> <<>>, href |-> <<>>, text |-> <<>>,
   scanned |-> FALSE, flagged |-> FALSE, title |-> NoTitle]

NoText ==
  [present |-> FALSE, kind |-> "subject", text |-> <<>>, scanned |-> FALSE,
   bodyScanned |-> FALSE, flagged |-> FALSE, banners |-> 0, words |-> <<>>,
   location |-> <<>>]

NewLink(host) == [NoLink EXCEPT !.present = TRUE, !.host = host]

NewText(kind, text) == [NoText EXCEPT !.present = TRUE, !.kind = kind, !.text = text]

Kinds == {"subject", "sender", "body"}

World ==
  [links |-> links, texts |-> texts, alerted |-> alerted, toasts |-> toasts,
   fired |-> fired, mutated |-> FALSE]

\* a childList record whose added nodes hold no link, and the record of an
\* added link or of a link whose href changed
ChildList == [type |-> "childList", link |-> 0]

Added(id) == [type |-> "childList", link |-> id]

HrefChanged(id) == [type |-> "attributes", link |-> id]

\* a faulty observer, to which no mutation is reported: C19 must tell it
\* from Observed
ObservedNever(r) == pending

\* the records waiting once the page or a handler has made the mutation r; a
\* record that is waiting already is not repeated (the callback treats both alike)
Observed(r) ==
  IF observing /\ (\A j \in 1..Len(pending) : pending[j] # r) THEN Append(pending, r) ELSE pending

Commit(w) ==
  /\ links' = w.links
  /\ texts' = w.texts
  /\ alerted' = w.alerted
  /\ toasts' = w.toasts
  /\ fired' = w.fired

\* part_001 443-466 (also 688-710, content.js 163-183): the first scan, then
\* the observer is installed; what the first scan inserted is not observed
Initialize ==
  /\ ~observing
  /\ Commit(runAllScans(variant, World))
  /\ observing' = TRUE
  /\ pending' = <<>>
  /\ UNCHANGED <<dec, variant>>

\* part_001 456-458 (also 702-704, content.js 173-175): the observer's
\* callback; what it inserts is reported to the next callback
ObserverCallback ==
  /\ observing
  /\ pending # <<>>
  /\ LET w == runAllScans(variant, World)
     IN /\ Commit(w)
        /\ pending' = IF w.mutated THEN <<ChildList>> ELSE <<>>
  /\ UNCHANGED <<dec, variant, observing>>

\* part_001 186-189, 200-205 (also 604-607, 618-623; content.js 103-106,
\* 116-121): the close button or the timer removes a toast
DismissToast ==
  \E k \in toasts :
    /\ toasts' = toasts \ {k}
    /\ pending' = Observed(ChildList)
    /\ UNCHANGED <<dec, variant, links, texts, alerted, fired, observing>>

\* the page appends a link
PageAddLink(hosts) ==
  \E id \in LinkIds, h \in hosts :
    /\ ~links[id].present
    /\ \A j \in LinkIds : j < id => links[j].present
    /\ links' = [links EXCEPT ![id] = NewLink(h)]
    /\ pending' = Observed(ChildList)
    /\ UNCHANGED <<dec, variant, texts, alerted, toasts, fired, observing>>

\* the page appends a subject, sender or body element
PageAddText(kinds, textSet) ==
  \E id \in TextIds, kind \in kinds, t \in textSet :
    /\ ~texts[id].present
    /\ \A j \in TextIds : j < id => texts[j].present
    /\ texts' = [texts EXCEPT ![id] = NewText(kind, t)]
    /\ pending' = Observed(ChildList)
    /\ UNCHANGED <<dec, variant, links, alerted, toasts, fired, observing>>

(***************************************************************************)
(* The decoder as a machine: one call of punycodeToUnicode (mode "label")  *)
(* or of getHostnameUnicode (mode "host"), the while loop of decode one     *)
(* iteration at a time.                                                    *)
(***************************************************************************)
NoState == decodeInit(<<>>)

DecCall(mode, input) ==
  [mode |-> mode, input |-> input, pc |-> "call", again |-> FALSE,
   parts |-> <<>>, k |-> 0, out |-> <<>>,
   label |-> <<>>, st |-> NoState, result |-> <<>>]

\* scanner.js 75-84: punycodeToUnicode is called on a label
CallPunycodeToUnicode ==
  /\ dec.pc = "call"
  /\ dec.mode = "label"
  /\ IF Len(dec.input) = 0 \/ ~StartsWith(dec.input, AcePrefix)
     THEN dec' = [dec EXCEPT !.pc = "done", !.result = dec.input]
     ELSE dec' = [dec EXCEPT !.pc = "loop", !.label = dec.input,
                             !.st = decodeInit(Slice(dec.input, 4))]
  /\ UNCHANGED pageVars

\* scanner.js 128-136: getHostnameUnicode is called on a hostname
CallGetHostnameUnicode ==
  /\ dec.pc = "call"
  /\ dec.mode = "host"
  /\ IF StartsWith(dec.input, AcePrefix)
     THEN dec' = [dec EXCEPT !.pc = "map", !.parts = SplitOn(dec.input, 46), !.k = 1]
     ELSE dec' = [dec EXCEPT !.pc = "done", !.result = dec.input]
  /\ UNCHANGED pageVars

\* scanner.js 134: the callback of parts.map on the next label
MapLabel ==
  /\ dec.pc = "map"
  /\ dec.k <= Len(dec.parts)
  /\ LET p == dec.parts[dec.k]
     IN IF StartsWith(p, AcePrefix)
        THEN dec' = [dec EXCEPT !.pc = "loop", !.label = p,
                                !.st = decodeInit(Slice(p, 4))]
        ELSE dec' = [dec EXCEPT !.out = Append(dec.out, p), !.k = dec.k + 1]
  /\ UNCHANGED pageVars

\* scanner.js 85-107: one iteration of the while loop
DecodeStep ==
  /\ dec.pc = "loop"
  /\ ~dec.st.returned
  /\ Len(dec.st.input) > 0
  /\ dec' = [dec EXCEPT !.st = decodeIteration(dec.st)]
  /\ UNCHANGED pageVars

\* scanner.js 88, 118: decode returns the string of the code points
DecodeReturn ==
  /\ dec.pc = "loop"
  /\ dec.st.returned \/ Len(dec.st.input) = 0
  /\ LET r == FromCharCode(dec.st.basic)
     IN IF dec.mode = "label"
        THEN dec' = [dec EXCEPT !.pc = "done", !.result = r]
        ELSE dec' = [dec EXCEPT !.pc = "map", !.out = Append(dec.out, r),
                                !.k = dec.k + 1]
  /\ UNCHANGED pageVars

\* scanner.js 134: join(".")
JoinLabels ==
  /\ dec.pc = "map"
  /\ dec.k > Len(dec.parts)
  /\ dec' = [dec EXCEPT !.pc = "done", !.result = JoinWith(dec.out, Dot)]
  /\ UNCHANGED pageVars

\* scanner.js 128-140: getHostnameUnicode is called on the hostname it
\* returned
DecodeAgain ==
  /\ dec.pc = "done"
  /\ dec.mode = "host"
  /\ ~dec.again
  /\ dec' = [DecCall("host", dec.result) EXCEPT !.again = TRUE]
  /\ UNCHANGED pageVars

DecodeInputs ==
  {DecCall("label", l) : l \in Labels} \cup {DecCall("host", h) : h \in DecodeHosts}

EmptyPage ==
  /\ links = [id \in LinkIds |-> NoLink]
  /\ texts = [id \in TextIds |-> NoText]
  /\ alerted = {}
  /\ toasts = {}
  /\ fired = <<>>
  /\ observing = FALSE
  /\ pending = <<>>

InitDecode ==
  /\ dec \in DecodeInputs
  /\ variant = "GlyphGuard"
  /\ EmptyPage

NextDecode ==
  \/ CallPunycodeToUnicode
  \/ CallGetHostnameUnicode
  \/ MapLabel
  \/ DecodeStep
  \/ DecodeReturn
  \/ JoinLabels
  \/ DecodeAgain

SpecDecode == InitDecode /\ [][NextDecode]_vars

(***************************************************************************)
(* The text checks on their own: a page of one element whose text is drawn *)
(* from the bounded texts, scanned by GlyphGuard.                          *)
(***************************************************************************)
MaxWords == 2

WordVerify == <<118, 101, 114, 105, 102, 121>>
WordPayPal == <<80, 97, 121, 80, 97, 108>>
\* "PayPal" with Cyrillic U+0420 as its first letter
WordPayPalCyrillicP == <<1056, 97, 121, 80, 97, 108>>
\* "paypal" with Cyrillic U+0430 as its second letter
WordPayPalCyrillicA == <<112, 1072, 121, 112, 97, 108>>
\* "PayPal" followed by the trade mark sign U+2122
WordPayPalTm == <<80, 97, 121, 80, 97, 108, 8482>>
\* "paypal@x"
WordPayPalAt == <<112, 97, 121, 112, 97, 108, 64, 120>>
\* three Cyrillic letters, no keyword
WordCyrillic == <<1055, 1088, 1080>>
WordAction == <<97, 99, 116, 105, 111, 110>>
WordRequired == <<114, 101, 113, 117, 105, 114, 101, 100>>

Vocabulary ==
  {WordVerify, WordPayPal, WordPayPalCyrillicP, WordPayPalCyrillicA, WordPayPalTm,
   WordPayPalAt, WordCyrillic, WordAction, WordRequired}

\* a space; a tab and a space
Separators == {<<32>>, <<9, 32>>}

\* the words joined by separators, 1..n words
RECURSIVE PhrasesOf(_)
PhrasesOf(n) ==
  IF n = 1 THEN Vocabulary
  ELSE LET shorter == PhrasesOf(n - 1)
       IN shorter \cup {w \o sep \o t : w \in Vocabulary, sep \in Separators, t \in shorter}

\* "Please verify your PayPal account", with the Cyrillic and the Latin P
ExampleHomoglyphText == <<80, 108, 101, 97, 115, 101, 32, 118, 101, 114, 105, 102, 121, 32, 121, 111, 117, 114, 32, 1056, 97, 121, 80, 97, 108, 32, 97, 99, 99, 111, 117, 110, 116>>
ExampleCleanText == <<80, 108, 101, 97, 115, 101, 32, 118, 101, 114, 105, 102, 121, 32, 121, 111, 117, 114, 32, 80, 97, 121, 80, 97, 108, 32, 97, 99, 99, 111, 117, 110, 116>>

\* each phrase as it is, and with white space around it
TextInputs ==
  LET phrases == PhrasesOf(MaxWords) \cup {ExampleHomoglyphText, ExampleCleanText}
  IN phrases \cup {<<32>> \o t \o <<10>> : t \in phrases} \cup {<<>>, <<32>>}

InitText ==
  /\ dec = DecCall("label", <<>>)
  /\ variant = "GlyphGuard"
  /\ links = [id \in LinkIds |-> NoLink]
  /\ \E kind \in Kinds, t \in TextInputs :
       texts = [id \in TextIds |-> IF id = 1 THEN NewText(kind, t) ELSE NoText]
  /\ alerted = {}
  /\ toasts = {}
  /\ fired = <<>>
  /\ observing = FALSE
  /\ pending = <<>>

NextText ==
  \/ Initialize
  \/ ObserverCallback
  \/ DismissToast

SpecText == InitText /\ [][NextText]_vars

(***************************************************************************)
(* Claims about the text checks, under SpecText.                           *)
(***************************************************************************)

\* the element of the page has been evaluated
Evaluated(id) == texts[id].present /\ texts[id].scanned

\* the maximal runs of characters that are not white space, in text order
RefTokenStarts(t) ==
  {i \in 1..Len(t) : ~IsSpace(t[i]) /\ (i = 1 \/ IsSpace(t[i - 1]))}

RefTokenAt(t, i) ==
  LET ends == {j \in i..Len(t) : j = Len(t) \/ IsSpace(t[j + 1])}
  IN SubSeq(t, i, CHOOSE j \in ends : \A e \in ends : j <= e)

RECURSIVE RefTokensFrom(_, _)
RefTokensFrom(t, starts) ==
  IF starts = {} THEN <<>>
  ELSE LET i == CHOOSE x \in starts : \A y \in starts : x <= y
       IN <<RefTokenAt(t, i)>> \o RefTokensFrom(t, starts \ {i})

RefTokens(t) == RefTokensFrom(t, RefTokenStarts(t))

\* a configured keyword or brand name
RefTerms ==
  {SUSPICIOUS_KEYWORDS[j] : j \in 1..Len(SUSPICIOUS_KEYWORDS)}
    \cup {BRAND_NAMES[j] : j \in 1..Len(BRAND_NAMES)}

\* a-z A-Z 0-9 . - , ; : ! ? ' " ( ) [ ] { } and white space
RefAllowed(c) ==
  \/ c \in (97..122) \cup (65..90) \cup (48..57)
  \/ c \in {46, 45, 44, 59, 58, 33, 63, 39, 34, 40, 41, 91, 93, 123, 125}
  \/ IsSpace(c)

RefMatches(token) ==
  /\ \E term \in RefTerms : Includes(toLowerCase(token), term)
  /\ \E j \in 1..Len(token) : ~RefAllowed(token[j])

\* the letters of the brand names that have a Cyrillic lookalike, lower case
\* and capital: a, c, e, o, p, x, y and A, C, E, O, P, X
Homoglyph ==
  [c \in {97, 99, 101, 111, 112, 120, 121, 65, 67, 69, 79, 80, 88} |->
     CASE c = 97 -> 1072 [] c = 99 -> 1089 [] c = 101 -> 1077 [] c = 111 -> 1086
       [] c = 112 -> 1088 [] c = 120 -> 1093 [] c = 121 -> 1091
       [] c = 65 -> 1040 [] c = 67 -> 1057 [] c = 69 -> 1045 [] c = 79 -> 1054
       [] c = 80 -> 1056 [] c = 88 -> 1061]

\* token is a brand name, in any letter case, but for one letter, which is
\* the Cyrillic lookalike of the brand's letter there
IsHomoglyphBrand(token) ==
  \E b \in 1..Len(BRAND_NAMES) :
    /\ Len(token) = Len(BRAND_NAMES[b])
    /\ \E j \in 1..Len(token) :
         /\ \E c \in DOMAIN Homoglyph :
              lowerOf(c) = BRAND_NAMES[b][j] /\ token[j] = Homoglyph[c]
         /\ \A m \in 1..Len(token) : m # j => lowerOf(token[m]) = BRAND_NAMES[b][m]

\* C1: a text with a brand name spelled with one non-Latin lookalike letter
\* is flagged, and matchedTerms holds that token.
C1_HomoglyphBrandFlagged ==
  \A id \in TextIds :
    Evaluated(id) =>
      \A j \in 1..Len(RefTokens(texts[id].text)) :
        LET token == RefTokens(texts[id].text)[j]
        IN IsHomoglyphBrand(token) =>
             /\ texts[id].flagged
             /\ \E m \in 1..Len(texts[id].words) : texts[id].words[m] = token

\* C6: a text of ASCII characters only is never flagged and has no matched
\* terms.
C6_AsciiNeverFlagged ==
  \A id \in TextIds :
    (Evaluated(id) /\ \A j \in 1..Len(texts[id].text) : texts[id].text[j] < 128) =>
      (~texts[id].flagged /\ texts[id].words = <<>>)

HostCyrillicApple == LabelCyrillicApple \o Dot \o LabelCom
HostWwwApple == LabelWww \o Dot \o LabelApple \o Dot \o LabelCom
HostPlain == LabelWww \o Dot \o LabelCom
HostUnderscore == <<97, 95, 98>> \o Dot \o LabelCom
HostTruncated == LabelTruncated \o Dot \o LabelCom
\* "10.xn--pple-43d", "127.xn--pple-43d", "192.168.xn--pple-43d"
Host10 == PREFIX_10 \o LabelApple
Host127 == PREFIX_127 \o LabelApple
Host192 == PREFIX_192_168 \o LabelApple

LinkHosts ==
  {HostCyrillicApple, HostWwwApple, HostPlain, HostUnderscore, HostTruncated,
   LOCALHOST, Host10, Host127, Host192, <<>>, InvalidUrl}

InitLinks ==
  /\ dec = DecCall("label", <<>>)
  /\ variant \in Variants
  /\ links \in [LinkIds -> {NewLink(h) : h \in LinkHosts}]
  /\ texts = [id \in TextIds |-> NoText]
  /\ alerted = {}
  /\ toasts = {}
  /\ fired = <<>>
  /\ observing = FALSE
  /\ pending = <<>>

NextLinks ==
  \/ Initialize
  \/ ObserverCallback
  \/ DismissToast

SpecLinks == InitLinks /\ [][NextLinks]_vars

(***************************************************************************)
(* The whole page under one build: the page appends links and text         *)
(* elements while the content script scans and the toasts go away.         *)
(***************************************************************************)
PageHosts == {HostCyrillicApple, HostWwwApple, HostPlain}

PageTexts == {WordPayPalTm, WordVerify}

AddLink == PageAddLink(PageHosts)

AddText == PageAddText(Kinds, PageTexts)

Init ==
  /\ dec = DecCall("label", <<>>)
  /\ variant \in Variants
  /\ EmptyPage

Next ==
  \/ Initialize
  \/ ObserverCallback
  \/ DismissToast
  \/ AddLink
  \/ AddText

Spec == Init /\ [][Next]_vars

(***************************************************************************)
(* Claims about the link checks, under SpecLinks.                          *)
(***************************************************************************)

\* a private-use host: empty, "localhost", or one that begins with "127.",
\* "192.168." or "10."
RefPrivate(host) ==
  \/ host = <<>>
  \/ host = <<108, 111, 99, 97, 108, 104, 111, 115, 116>>
  \/ StartsWith(host, <<49, 50, 55, 46>>)
  \/ StartsWith(host, <<49, 57, 50, 46, 49, 54, 56, 46>>)
  \/ StartsWith(host, <<49, 48, 46>>)

\* a character outside [A-Za-z0-9.-]
RefOutsideDomainClass(c) == c \notin (65..90) \cup (97..122) \cup (48..57) \cup {46, 45}

\* the link has been through the domain check, and its href has a hostname
Checked(id) == links[id].present /\ links[id].scanned /\ links[id].host # InvalidUrl

Range(f) == {f[j] : j \in DOMAIN f}

\* C2: a hostname that is not private-use is marked suspicious exactly when
\* its decoded form holds a character outside [A-Za-z0-9.-]; the tooltip's
\* actual domain, the toast and the alert key are the decoded hostname;
\* "xn--80ak6aa92e.com" is marked, with the decoded Cyrillic string.
C2_NonLatinMarked ==
  \A id \in LinkIds :
    (Checked(id) /\ ~RefPrivate(links[id].host)) =>
      LET decoded == toUnicode(links[id].host)
      IN /\ links[id].flagged <=>
              \E j \in 1..Len(decoded) : RefOutsideDomainClass(decoded[j])
         /\ links[id].flagged =>
              /\ links[id].title.actual = decoded
              /\ decoded \in alerted
              /\ decoded \in Range(fired)
         /\ links[id].host = <<120, 110, 45, 45, 56, 48, 97, 107, 54, 97, 97, 57, 50, 101, 46, 99, 111, 109>> =>
              /\ links[id].flagged
              /\ Includes(links[id].title.actual, <<1072, 1088, 1088, 1231, 1077>>)

C2_Witness ==
  \E id \in LinkIds :
    /\ Checked(id)
    /\ links[id].host = HostCyrillicApple
    /\ links[id].flagged
    /\ links[id].title.actual = <<1072, 1088, 1088, 1231, 1077, 46, 99, 111, 109>>
    /\ links[id].title.actual \in toasts

\* C9: a link to a private-use host is never highlighted, gets no tooltip,
\* and a page of such links alone shows no toast and records no alert key.
C9_PrivateHostsSkipped ==
  /\ \A id \in LinkIds :
       (Checked(id) /\ RefPrivate(links[id].host)) =>
         (~links[id].flagged /\ links[id].title = NoTitle)
  /\ (\A id \in LinkIds : links[id].present => RefPrivate(links[id].host)) =>
       (alerted = {} /\ fired = <<>> /\ toasts = {})

(***************************************************************************)
(* Claims about the alert-key set, under Spec.                             *)
(***************************************************************************)

\* C10: shouldAlert(k) is true exactly when k has never been recorded;
\* recording adds the recorded keys and nothing else; no key is ever removed,
\* also not when its toast is dismissed.
C10_RecordedForever ==
  /\ [](\A k \in alerted \cup Range(fired) : shouldAlert(alerted, k) <=> k \notin Range(fired))
  /\ [][/\ alerted \subseteq alerted'
        /\ alerted' \ alerted = Range(fired') \ Range(fired)
        /\ \A k \in alerted : ~shouldAlert(alerted', k)
        /\ \A k \in Range(fired') \ alerted' : shouldAlert(alerted, k) = shouldAlert(alerted', k)]_vars

\* a key was recorded, its toast is gone, a second link with the same key
\* was checked later, and another key was recorded as well
C10_Witness ==
  /\ links[1].flagged
  /\ links[2].flagged
  /\ links[1].title.actual = links[2].title.actual
  /\ Len(fired) = 2
  /\ fired[1] = links[1].title.actual
  /\ fired[1] \notin toasts
  /\ alerted = {fired[1], fired[2]}

\* how often the key k has been alerted
Occurrences(k) == Cardinality({i \in 1..Len(fired) : fired[i] = k})

\* C11: whatever the order of the initial scan, the observer's callbacks,
\* the page's additions and the dismissals, every alert key is alerted at
\* most once, and the key of every flagged link or text exactly once.
C11_OneAlertPerKey ==
  /\ \A i, j \in 1..Len(fired) : fired[i] = fired[j] => i = j
  /\ \A id \in LinkIds : links[id].flagged => Occurrences(links[id].title.actual) = 1
  /\ \A id \in TextIds :
       texts[id].flagged => Occurrences(alertIdOf(texts[id].location, texts[id].words)) = 1

\* two links with the same key are flagged, the key's toast has been
\* dismissed, and the key was alerted once
C11_Witness ==
  /\ observing
  /\ links[1].flagged
  /\ links[2].flagged
  /\ links[1].title.actual = links[2].title.actual
  /\ fired = <<links[1].title.actual>>
  /\ toasts = {}

(***************************************************************************)
(* scanner.js on a page that appends anchors and changes their hrefs.      *)
(***************************************************************************)
HTTP == <<104, 116, 116, 112, 58, 47, 47>>
SLASH == <<47>>

\* an anchor whose href attribute is the absolute URL of the host
Target(host) == [raw |-> HTTP \o host \o SLASH, href |-> HTTP \o host \o SLASH, host |-> host]

\* an anchor without href
NoTarget == [raw |-> <<>>, href |-> <<>>, host |-> <<>>]

\* "xn--pple-43d.com" and "xn--80ak6aa92e.xn--p1ai"
HostApple == LabelApple \o Dot \o LabelCom
HostAllCyrillic == LabelCyrillicApple \o Dot \o LabelRf

Targets == {Target(HostPlain), Target(HostApple), Target(HostAllCyrillic)}

\* the anchors the page appends: a target and a text (none, or two Cyrillic
\* letters)
Anchors ==
  {[target |-> Target(HostPlain), text |-> <<>>],
   [target |-> Target(HostPlain), text |-> ExampleRf],
   [target |-> Target(HostApple), text |-> <<>>],
   [target |-> Target(HostAllCyrillic), text |-> <<>>],
   [target |-> NoTarget, text |-> ExampleRf]}

NewAnchor(a) ==
  [NoLink EXCEPT !.present = TRUE, !.host = a.target.host, !.raw = a.target.raw,
                 !.href = a.target.href, !.text = a.text]

\* scanner.js 188-196: start
MixedStart ==
  /\ ~observing
  /\ Commit(scanAll(World))
  /\ observing' = TRUE
  /\ pending' = <<>>
  /\ UNCHANGED <<dec, variant>>

\* scanner.js 174-186
MixedObserver ==
  /\ observing
  /\ pending # <<>>
  /\ LET w == inspectRecords(World, pending)
     IN /\ Commit(w)
        /\ pending' = IF w.mutated THEN <<ChildList>> ELSE <<>>
  /\ UNCHANGED <<dec, variant, observing>>

\* the page appends an anchor; the observer's callback is a microtask, so
\* the records of one task of the page are delivered before its next task
MixedAddAnchor ==
  \E id \in LinkIds, a \in Anchors :
    /\ pending = <<>>
    /\ ~links[id].present
    /\ \A j \in LinkIds : j < id => links[j].present
    /\ links' = [links EXCEPT ![id] = NewAnchor(a)]
    /\ pending' = Observed(Added(id))
    /\ UNCHANGED <<dec, variant, texts, alerted, toasts, fired, observing>>

\* the page sets the href of an anchor
MixedSetHref ==
  \E id \in LinkIds, target \in Targets :
    /\ pending = <<>>
    /\ links[id].present
    /\ links[id].href # target.href
    /\ links' = [links EXCEPT ![id].host = target.host, ![id].raw = target.raw,
                              ![id].href = target.href]
    /\ pending' = Observed(HrefChanged(id))
    /\ UNCHANGED <<dec, variant, texts, alerted, toasts, fired, observing>>

InitMixed ==
  /\ dec = DecCall("label", <<>>)
  /\ variant = "Scanner"
  /\ EmptyPage

NextMixed ==
  \/ MixedStart
  \/ MixedObserver
  \/ MixedAddAnchor
  \/ MixedSetHref
  \/ DismissToast

SpecMixed == InitMixed /\ [][NextMixed]_vars

(***************************************************************************)
(* Claims about the mixed-script check, under SpecMixed.                   *)
(***************************************************************************)

\* inspectLink has run on the link as it is now
Inspected(id) ==
  /\ links[id].present
  /\ observing
  /\ \A j \in 1..Len(pending) : pending[j].link # id

\* the code-point ranges of the script tags
RefScriptOf(c) ==
  IF c \in (65..122) \cup (192..255) THEN {"Latin"}
  ELSE IF c \in 880..1023 THEN {"Greek"}
  ELSE IF c \in 1024..1279 THEN {"Cyrillic"}
  ELSE IF c \in 1328..1423 THEN {"Armenian"}
  ELSE IF c \in 1424..1535 THEN {"Hebrew"}
  ELSE IF c \in 1536..1791 THEN {"Arabic"}
  ELSE {}

RefScripts(str) == UNION {RefScriptOf(str[j]) : j \in 1..Len(str)}

\* the scripts of everything the link shows: href attribute, text, decoded
\* hostname and resolved URL
RefLinkScripts(link) ==
  RefScripts(link.raw) \cup RefScripts(link.text)
    \cup (IF Len(link.href) > 0
          THEN RefScripts(getHostnameUnicode(link.host)) \cup RefScripts(link.href)
          ELSE {})

\* C8 (as stated): a link is marked MixedScript exactly when the scripts of
\* its decoded hostname are more than one, whatever its text and URL hold.
C8_HostnameAlone ==
  \A id \in LinkIds :
    Inspected(id) =>
      (links[id].flagged <=>
         Cardinality(detectScripts(getHostnameUnicode(links[id].host))) > 1)

\* C8 (amended): inspectLink marks a link exactly when its href attribute,
\* text, decoded hostname and resolved URL together hold more than one
\* script; a marked link stays marked.
C8_LinkScriptsDecide ==
  /\ [](\A id \in LinkIds :
          (Inspected(id) /\ ~links[id].flagged) =>
            Cardinality(RefLinkScripts(links[id])) <= 1)
  /\ [][\A id \in LinkIds :
          /\ (links'[id].flagged /\ ~links[id].flagged) =>
               Cardinality(RefLinkScripts(links[id])) > 1
          /\ links[id].flagged => links'[id].flagged]_vars

\* a link whose hostname is Cyrillic alone has been marked
C8_Witness ==
  \E id \in LinkIds :
    /\ Inspected(id)
    /\ links[id].flagged
    /\ links[id].host = HostAllCyrillic
    /\ links[id].text = <<>>
    /\ detectScripts(getHostnameUnicode(links[id].host)) = {"Cyrillic"}

(***************************************************************************)
(* detectScripts of scanner.js on its own: the machine takes one call, the *)
(* for loop over the table one script at a time.                           *)
(***************************************************************************)
MaxScriptLen == 2

\* Object.entries(scripts): the scripts in the order of the table
ScriptOrder == <<"Latin", "Greek", "Cyrillic", "Armenian", "Hebrew", "Arabic">>

\* the first and last code unit of every range and their neighbours, a
\* digit and a space
ScriptAlphabet ==
  {32, 48, 64, 65, 122, 123, 191, 192, 255, 256, 879, 880, 1023, 1024, 1279, 1280,
   1327, 1328, 1423, 1424, 1535, 1536, 1791, 1792}

\* "paypal", and "paypal" with Cyrillic U+0430 as its second letter
ExamplePaypal == <<112, 97, 121, 112, 97, 108>>
ExamplePaypalCyrillic == <<112, 1072, 121, 112, 97, 108>>

ScriptTexts == StringsUpTo(ScriptAlphabet, MaxScriptLen) \cup {ExamplePaypal, ExamplePaypalCyrillic}

\* scanner.js 12-14: detectScripts is called on a string
CallDetectScripts ==
  /\ dec.pc = "call"
  /\ dec.mode = "scripts"
  /\ IF Len(dec.input) = 0
     THEN dec' = [dec EXCEPT !.pc = "done", !.result = {}]
     ELSE dec' = [dec EXCEPT !.pc = "for", !.result = {}, !.k = 1]
  /\ UNCHANGED pageVars

\* scanner.js 15-17: the body of the for loop on the next script
TestScript ==
  /\ dec.pc = "for"
  /\ dec.k <= Len(ScriptOrder)
  /\ LET name == ScriptOrder[dec.k]
     IN dec' = [dec EXCEPT !.k = dec.k + 1,
                           !.result = IF \E j \in 1..Len(dec.input) :
                                            scriptMatches(name, dec.input[j])
                                      THEN dec.result \cup {name} ELSE dec.result]
  /\ UNCHANGED pageVars

\* scanner.js 18
ReturnScripts ==
  /\ dec.pc = "for"
  /\ dec.k > Len(ScriptOrder)
  /\ dec' = [dec EXCEPT !.pc = "done"]
  /\ UNCHANGED pageVars

InitScripts ==
  /\ dec \in {DecCall("scripts", t) : t \in ScriptTexts}
  /\ variant = "Scanner"
  /\ EmptyPage

NextScripts ==
  \/ CallDetectScripts
  \/ TestScript
  \/ ReturnScripts

SpecScripts == InitScripts /\ [][NextScripts]_vars

\* C15: scriptsOf (detectScripts) returns exactly the tags that have a
\* character of the text in their range: nothing for the empty string,
\* {Latin} for "paypal", {Latin, Cyrillic} once a letter is Cyrillic U+0430.
C15_ScriptsExact ==
  (dec.mode = "scripts" /\ dec.pc = "done") =>
    /\ dec.result = RefScripts(dec.input)
    /\ dec.input = <<>> => dec.result = {}
    /\ dec.input = ExamplePaypal => dec.result = {"Latin"}
    /\ dec.input = ExamplePaypalCyrillic => dec.result = {"Latin", "Cyrillic"}

C15_Witness ==
  /\ dec.mode = "scripts"
  /\ dec.pc = "done"
  /\ dec.input = ExamplePaypalCyrillic
  /\ dec.result = {"Latin", "Cyrillic"}

(***************************************************************************)
(* Every operation of the engine called once and run to its end: a label   *)
(* or a hostname through the decoder, a string through detectScripts, a    *)
(* page of one link or one text element through the first scan.  The code  *)
(* is synchronous, so a call that has begun keeps taking steps.            *)
(***************************************************************************)
\* hostnames of one and two labels
TotalHosts == HostLabels \cup {l \o Dot \o h : l \in HostLabels, h \in HostLabels}

TotalScriptTexts ==
  {<<>>, ExamplePaypal, ExamplePaypalCyrillic} \cup {<<c>> : c \in ScriptAlphabet}

TotalTexts == Vocabulary \cup {ExampleHomoglyphText, ExampleCleanText, <<>>, <<32>>}

\* no call of the decoder or of detectScripts is under way
Idle == [DecCall("label", <<>>) EXCEPT !.pc = "done"]

\* a call on a page whose content script is installed and at rest
InitTotalCall ==
  /\ dec \in {DecCall("label", l) : l \in Labels}
             \cup {DecCall("host", h) : h \in TotalHosts}
             \cup {DecCall("scripts", t) : t \in TotalScriptTexts}
  /\ variant = "Scanner"
  /\ links = [id \in LinkIds |-> NoLink]
  /\ texts = [id \in TextIds |-> NoText]
  /\ alerted = {}
  /\ toasts = {}
  /\ fired = <<>>
  /\ observing = TRUE
  /\ pending = <<>>

\* a page of one link or one text element before the content script runs
InitTotalPage ==
  /\ dec = Idle
  /\ variant \in Variants
  /\ \/ /\ \E h \in LinkHosts : links = [id \in LinkIds |-> IF id = 1 THEN NewLink(h) ELSE NoLink]
        /\ texts = [id \in TextIds |-> NoText]
     \/ /\ links = [id \in LinkIds |-> NoLink]
        /\ \E kind \in Kinds, t \in TotalTexts :
             texts = [id \in TextIds |-> IF id = 1 THEN NewText(kind, t) ELSE NoText]
  /\ alerted = {}
  /\ toasts = {}
  /\ fired = <<>>
  /\ observing = FALSE
  /\ pending = <<>>

InitTotal == InitTotalCall \/ InitTotalPage

NextTotal ==
  \/ CallPunycodeToUnicode
  \/ CallGetHostnameUnicode
  \/ MapLabel
  \/ DecodeStep
  \/ DecodeReturn
  \/ JoinLabels
  \/ DecodeAgain
  \/ CallDetectScripts
  \/ TestScript
  \/ ReturnScripts
  \/ Initialize
  \/ ObserverCallback
  \/ DismissToast

SpecTotal == InitTotal /\ [][NextTotal]_vars

\* the digits of a label: what follows its last "-" once the prefix is off
RefDigits(label) ==
  LET s == SubSeq(label, 5, Len(label))
      dashes == {j \in 1..Len(s) : s[j] = 45}
  IN IF dashes = {} THEN Len(s)
     ELSE Len(s) - (CHOOSE j \in dashes : \A m \in dashes : m <= j)

\* a string: a sequence of 16-bit code units
RefIsString(r) == \A j \in 1..Len(r) : r[j] \in 0..65535

\* the call, or the first scan of the page, has come to its end
RefFinished ==
  /\ dec.pc = "done"
  /\ observing
  /\ \A id \in LinkIds : links[id].present => links[id].scanned
  /\ \A id \in TextIds :
       (variant = "GlyphGuard" /\ texts[id].present /\ trim(texts[id].text) # <<>>)
         => texts[id].scanned

\* the work the labels parts[k..] still need
RECURSIVE RefPartsWork(_, _)
RefPartsWork(parts, k) ==
  IF k > Len(parts) THEN 0 ELSE Len(parts[k]) + 3 + RefPartsWork(parts, k + 1)

\* a number that every step of a call and every step after the first scan
\* makes smaller
RefWork ==
  (IF dec.mode = "host" /\ ~dec.again THEN 100000 ELSE 0)
  + (CASE dec.pc = "done" -> 0
       [] dec.pc = "call" -> 3 * Len(dec.input) + 8
       [] dec.pc = "for" -> Len(ScriptOrder) + 2 - dec.k
       [] dec.pc = "map" -> RefPartsWork(dec.parts, dec.k) + 1
       [] dec.pc = "loop" ->
            (IF dec.mode = "host" THEN RefPartsWork(dec.parts, dec.k + 1) + 2 ELSE 0)
            + Len(dec.st.input) + 1)
  + (IF observing THEN 0 ELSE 1000)
  + 2 * Cardinality(toasts) + Len(pending)

C3_DecodesWellFormed ==
  /\ (dec.mode = "label" /\ dec.pc = "done") =>
       \A w \in WellFormed : w.label = dec.input => dec.result = w.unicode
  /\ (dec.pc = "loop" /\ dec.st.iterations = 0) =>
       (dec.st.n = 128 /\ dec.st.i = 0 /\ dec.st.bias = 72)

\* C4: the k-th label of decodeHostname's result is decodeLabel of the k-th
\* label of the input, for every hostname and every k.
C4_EveryLabelDecoded ==
  (dec.mode = "host" /\ dec.pc = "done") =>
    LET ins == SplitOn(dec.input, 46)
        outs == SplitOn(dec.result, 46)
    IN /\ Len(outs) = Len(ins)
       /\ \A k \in 1..Len(ins) : outs[k] = punycodeToUnicode(ins[k])

\* C5: a label whose digits end inside a delta, or whose encoded part holds a
\* character that is no base-36 digit, comes back unchanged.
C5_MalformedUnchanged ==
  (dec.mode = "label" /\ dec.pc = "done"
     /\ dec.input \in TruncatedLabels \cup BadDigitLabels) =>
    dec.result = dec.input

\* the label begins with "xn--"
RefHasPrefix(label) ==
  /\ Len(label) >= 4
  /\ label[1] = 120 /\ label[2] = 110 /\ label[3] = 45 /\ label[4] = 45

\* C12: decodeLabel (punycodeToUnicode) returns every label that does not
\* begin with "xn--" as it is: the empty label, and labels that hold "xn--"
\* elsewhere or in another case, too.
C12_IdentityWithoutPrefix ==
  (dec.mode = "label" /\ dec.pc = "done" /\ ~RefHasPrefix(dec.input)) =>
    dec.result = dec.input

\* "axn--a" has been returned as it is
C12_Witness ==
  /\ dec.mode = "label"
  /\ dec.pc = "done"
  /\ dec.input = <<97, 120, 110, 45, 45, 97>>
  /\ dec.result = <<97, 120, 110, 45, 45, 97>>

\* C13 (as stated): decoding a decoded hostname changes nothing, for every
\* hostname.
C13_Idempotent ==
  (dec.mode = "host" /\ dec.pc = "done" /\ dec.again) => dec.result = dec.input

\* C13 (amended): decoding a decoded hostname changes nothing exactly when
\* the decoded hostname does not begin with "xn--"; one that does is decoded
\* a second time.
C13_IdempotentUnlessPrefix ==
  (dec.mode = "host" /\ dec.pc = "done" /\ dec.again) =>
    (dec.result = dec.input <=> ~RefHasPrefix(dec.input))

\* the decoded form of "xn--pple-43d.com" has been decoded again and is
\* unchanged
C13_Witness ==
  /\ dec.mode = "host"
  /\ dec.pc = "done"
  /\ dec.again
  /\ dec.input = <<1072, 112, 112, 108, 101>> \o Dot \o LabelCom
  /\ dec.result = dec.input

\* C14: for a hostname without empty labels, decodeHostname's result has as
\* many labels as the hostname, and its k-th label is the k-th label of the
\* hostname or what that label decodes to.
C14_LabelsPreserved ==
  (dec.mode = "host" /\ dec.pc = "done"
     /\ \A k \in 1..Len(SplitOn(dec.input, 46)) : Len(SplitOn(dec.input, 46)[k]) > 0) =>
    LET ins == SplitOn(dec.input, 46)
        outs == SplitOn(dec.result, 46)
    IN /\ Len(outs) = Len(ins)
       /\ \A k \in 1..Len(ins) :
            outs[k] = ins[k] \/ (RefHasPrefix(ins[k]) /\ outs[k] = punycodeToUnicode(ins[k]))

(***************************************************************************)
(* The text alert keys: a page of several text elements whose suspicious   *)
(* words may hold the '-' that joins them in the key, scanned by           *)
(* GlyphGuard.                                                             *)
(***************************************************************************)
KeyIds == 1..(MaxTexts + 1)

\* "PayPal(TM)-PayPal(TM)", one word
WordHyphenated == WordPayPalTm \o DASH \o WordPayPalTm

\* "PayPal(TM) PayPal(TM)", two words
PhraseRepeated == WordPayPalTm \o <<32>> \o WordPayPalTm

KeyTexts == {WordPayPalTm, WordHyphenated, PhraseRepeated, WordPayPalAt, WordVerify}

InitKeys ==
  /\ dec = DecCall("label", <<>>)
  /\ variant = "GlyphGuard"
  /\ links = [id \in LinkIds |-> NoLink]
  /\ texts \in [KeyIds -> {NewText(kind, t) : kind \in Kinds, t \in KeyTexts}]
  /\ alerted = {}
  /\ toasts = {}
  /\ fired = <<>>
  /\ observing = FALSE
  /\ pending = <<>>

NextKeys ==
  \/ Initialize
  \/ ObserverCallback
  \/ DismissToast

SpecKeys == InitKeys /\ [][NextKeys]_vars

\* the finding of a flagged element: its location and its suspicious words
RefFinding(id) == <<texts[id].location, texts[id].words>>

\* location, "-" and words as the key writes them, built character by
\* character from the finding
RECURSIVE RefWordsKey(_)
RefWordsKey(words) ==
  IF words = <<>> THEN <<>>
  ELSE IF Len(words) = 1 THEN words[1]
  ELSE words[1] \o <<45>> \o RefWordsKey(Tail(words))

RefKey(finding) ==
  <<116, 101, 120, 116, 45>> \o finding[1] \o <<45>> \o RefWordsKey(finding[2])

\* C17: two flagged text elements with different (location, suspicious
\* words) findings never have the same alert key, and every finding has an
\* alert of its own: as many alerts fire as there are different findings.
C17_KeysInjective ==
  LET flagged == {id \in DOMAIN texts : texts[id].flagged}
  IN /\ \A i \in flagged, j \in flagged :
          RefFinding(i) # RefFinding(j) => RefKey(RefFinding(i)) # RefKey(RefFinding(j))
     /\ Len(fired) = Cardinality({RefFinding(id) : id \in flagged})

(***************************************************************************)
(* Claims about the scanned markers, under Spec.                           *)
(***************************************************************************)

\* C18: over the first scan and every later scan, a link or text element
\* that carries the scanned marker is left as it is (marker, highlight,
\* tooltip, banner); the marker is set in the evaluation itself, so what an
\* evaluation leaves behind is found on marked elements only; and no text
\* element ever has more than one banner.
C18_EvaluatedOnce ==
  /\ [][\A id \in LinkIds : links[id].scanned => links'[id] = links[id]]_vars
  /\ [][\A id \in TextIds : texts[id].scanned => texts'[id] = texts[id]]_vars
  /\ [](\A id \in LinkIds :
          (links[id].flagged \/ links[id].title # NoTitle) => links[id].scanned)
  /\ [](\A id \in TextIds :
          (texts[id].flagged \/ texts[id].banners > 0) => texts[id].scanned)
  /\ [](\A id \in TextIds : texts[id].banners <= 1)

\* a flagged link and a flagged text element with its one banner, after the
\* toasts were dismissed and the scans that the dismissals set off have run
C18_Witness ==
  /\ \E id \in LinkIds : links[id].scanned /\ links[id].flagged
  /\ \E id \in TextIds : texts[id].scanned /\ texts[id].flagged /\ texts[id].banners = 1
  /\ Len(fired) = 2
  /\ toasts = {}
  /\ observing
  /\ pending = <<>>

(***************************************************************************)
(* The scan/observe loop of every build: the page appends its elements,    *)
(* the toasts go away on their timers, and the observer's callback, a      *)
(* microtask, runs whenever records wait.                                  *)
(***************************************************************************)
InitQuiesce ==
  /\ dec = DecCall("label", <<>>)
  /\ variant \in Variants \cup {"Scanner"}
  /\ EmptyPage

\* part_001 443-466, scanner.js 188-196: the script starts
QuiesceStart ==
  \/ variant # "Scanner" /\ Initialize
  \/ variant = "Scanner" /\ MixedStart

\* part_001 456-458, scanner.js 174-186: the observer's callback
QuiesceObserver ==
  \/ variant # "Scanner" /\ ObserverCallback
  \/ variant = "Scanner" /\ MixedObserver

\* a hostname that is flagged and one that is not
QuiesceHosts == {HostCyrillicApple, HostPlain}

\* a text that is flagged and one that is not
QuiesceTexts == {WordPayPalTm, WordVerify}

\* the page appends a link or a text element
QuiescePage ==
  \/ variant # "Scanner" /\ PageAddLink(QuiesceHosts)
  \/ variant # "Scanner" /\ PageAddText({"subject", "body"}, QuiesceTexts)
  \/ variant = "Scanner" /\ MixedAddAnchor

NextQuiesce ==
  \/ QuiesceStart
  \/ QuiesceObserver
  \/ QuiescePage
  \/ DismissToast

\* weak fairness of the start (the script runs once the document is ready)
\* and of the observer's callback (a microtask, run before the next task),
\* written out: the start is enabled exactly while the observer is not
\* installed, the callback exactly while records wait
FairStart == []<>observing \/ []<><<QuiesceStart>>_vars

FairObserver == []<>(~observing \/ pending = <<>>) \/ []<><<QuiesceObserver>>_vars

SpecQuiesce ==
  /\ InitQuiesce
  /\ [][NextQuiesce]_vars
  /\ FairStart
  /\ FairObserver

\* what one more scan of the whole page would leave
RefRescan(w) == IF variant = "Scanner" THEN scanAll(w) ELSE runAllScans(variant, w)

\* the page as the document shows it
RefDom(w) == <<w.links, w.texts, w.toasts>>

\* the script runs, no record waits, and a scan of the page changes nothing
RefQuiet ==
  /\ observing
  /\ pending = <<>>
  /\ RefDom(RefRescan(World)) = RefDom(World)

\* C19: a callback that finds only records of the script's own insertions
\* and removals (no unscanned element on the page) changes nothing in the
\* document and leaves no record; once quiet, the system takes no step
\* until the page appends an element or a toast goes away; and from every
\* state a quiet state is reached.
C19_Quiesces ==
  /\ [][(QuiesceObserver /\ RefDom(RefRescan(World)) = RefDom(World))
          => (RefDom(World)' = RefDom(World) /\ pending' = <<>>)]_vars
  /\ [][RefQuiet => (QuiescePage \/ DismissToast)]_vars
  /\ []<>RefQuiet

\* GlyphGuard at rest with a flagged element and its banner, after its
\* toast went away and the scan that the removal set off has run
C19_Witness ==
  /\ RefQuiet
  /\ variant = "GlyphGuard"
  /\ \E id \in TextIds : texts[id].flagged /\ texts[id].banners = 1
  /\ fired # <<>>
  /\ toasts = {}

====
